---- MODULE Spec2Model ----
(***************************************************************************)
(* Overtime Helper: the shift classification and aggregation pipeline of   *)
(* src/app.py (prepare_shifts .. build_teams_with_ot, run in the order of  *)
(* app.py lines 441-459).                                                  *)
(*                                                                         *)
(* A DataFrame is a record [cols, rows]: cols is the set of its column     *)
(* names, rows the sequence of its rows (records).  A calendar date is its *)
(* ordinal day in 2025 (1 = 2025-01-01, a Wednesday).  Hours are integers. *)
(* A raw CSV cell that is parsed (shift_date, total_scheduled) is a tagged *)
(* record [kind, v]: kind "ok" (v is the value the text denotes), "text"   *)
(* (text that does not parse) or "nan" (an empty cell).                    *)
(*                                                                         *)
(* The pandas calls behave as in pandas 1.3 to 2.x: groupby drops the rows *)
(* whose key is missing (dropna=True), groupby.apply passes the key        *)
(* columns to the function, and DataFrame.apply(axis=1) of a frame of zero *)
(* rows returns the frame.                                                 *)
(***************************************************************************)
EXTENDS Integers, Sequences, FiniteSets, TLC

VARIABLES raw, cfg, pc, df, summary_table, granular_table, pivot_table,
          weekly_summary, monthly_summary, teams_with_ot

vars == <<raw, cfg, pc, df, summary_table, granular_table, pivot_table,
          weekly_summary, monthly_summary, teams_with_ot>>

(***************************************************************************)
(* Bounds of the model.                                                    *)
(***************************************************************************)
MaxRows == 3
MaxContracted == 3

(***************************************************************************)
(* Program constants.                                                      *)
(***************************************************************************)
KENYA_TZ == "Africa/Nairobi"

KENYA_BANK_HOLIDAYS_2025 == {1, 90, 108, 111, 121, 152, 158, 283, 293, 346, 359, 360}

SHIFT_HOURS_BY_TEAM ==
    [t \in {"Fraud Operations", "Customer Support", "Core Ops / Payment Ops",
            "Compliance Ops", "Treasury Ops"} |->
        IF t = "Core Ops / Payment Ops" THEN 12 ELSE 9]

\* pandas' missing values: NaN of an object column, NaT of a datetime column
\* (no calendar date has ordinal 0).
NaN == "NaN"
NaT == 0

(***************************************************************************)
(* Generic sequence helpers (pandas primitives).                           *)
(***************************************************************************)
RECURSIVE SumSeq(_)
SumSeq(s) == IF s = <<>> THEN 0 ELSE Head(s) + SumSeq(Tail(s))

\* Boolean-mask selection: the rows at the positions I, in order.
SelectRows(rows, I) ==
    LET F[i \in 0..Len(rows)] ==
            IF i = 0 THEN <<>>
            ELSE IF i \in I THEN Append(F[i - 1], rows[i]) ELSE F[i - 1]
    IN F[Len(rows)]

\* Series.unique(): the distinct values in order of first appearance.
RECURSIVE Unique(_)
Unique(s) ==
    IF s = <<>> THEN <<>>
    ELSE LET init == Unique(SubSeq(s, 1, Len(s) - 1))
             x == s[Len(s)]
         IN IF \E i \in 1..Len(init) : init[i] = x THEN init ELSE Append(init, x)

\* Lexicographic order of two key tuples of the same length.
RECURSIVE LexLE(_, _)
LexLE(a, b) ==
    IF a = <<>> THEN TRUE
    ELSE IF Head(a) < Head(b) THEN TRUE
    ELSE IF Head(a) > Head(b) THEN FALSE
    ELSE LexLE(Tail(a), Tail(b))

\* Stable insertion of position i into the positions p sorted by key: after
\* the last position whose key is not greater.
InsertSorted(i, p, keys) ==
    LET before == {j \in 1..Len(p) : LexLE(keys[p[j]], keys[i])}
        at == IF before = {} THEN 0 ELSE CHOOSE j \in before : \A k \in before : k <= j
    IN SubSeq(p, 1, at) \o <<i>> \o SubSeq(p, at + 1, Len(p))

\* sort_values: the rows in the stable order of their key tuples keys[i].
StableSort(rows, keys) ==
    LET F[i \in 0..Len(rows)] ==
            IF i = 0 THEN <<>> ELSE InsertSorted(i, F[i - 1], keys)
    IN [j \in 1..Len(rows) |-> rows[F[Len(rows)][j]]]

RECURSIVE SetToSeq(_)
SetToSeq(S) ==
    IF S = {} THEN <<>>
    ELSE LET x == CHOOSE y \in S : TRUE IN <<x>> \o SetToSeq(S \ {x})

Range(s) == {s[i] : i \in 1..Len(s)}

(***************************************************************************)
(* Ordering of the key columns.  The strings of the model are listed in    *)
(* their lexicographic order (capitals before small letters); a missing    *)
(* value sorts last (na_position).                                         *)
(***************************************************************************)
EmailOrder == <<"amina@nala.money", "brian@nala.money">>
NameOrder == <<"Amina A", "Brian B", "amina a">>

RankIn(order, x) ==
    IF \E i \in 1..Len(order) : order[i] = x
    THEN CHOOSE i \in 1..Len(order) : order[i] = x
    ELSE Len(order) + 1

EmailRank(e) == RankIn(EmailOrder, e)
NameRank(n) == RankIn(NameOrder, n)
\* NaT sorts after every date of 2025.
DateRank(d) == IF d = NaT THEN 1000 ELSE d

(***************************************************************************)
(* Calendar.                                                               *)
(***************************************************************************)
\* Series.dt.weekday: Monday = 0.
Weekday(d) == (d + 1) % 7

WeekStart(d) == IF d = NaT THEN NaT ELSE d - Weekday(d)

MonthStarts == {1, 32, 60, 91, 121, 152, 182, 213, 244, 274, 305, 335}

\* dt.to_period("M").dt.to_timestamp(): the first day of the date's month.
MonthStart(d) ==
    IF d = NaT THEN NaT
    ELSE CHOOSE m \in MonthStarts : m <= d /\ \A k \in MonthStarts : k <= d => k <= m

(***************************************************************************)
(* prepare_shifts                                                          *)
(***************************************************************************)
\* pd.to_datetime raises on text that is no date; an empty cell becomes NaT.
DateParses(cell) == cell.kind # "text"
ToDatetime(cell) == IF cell.kind = "ok" THEN cell.v ELSE NaT

\* pd.to_numeric(errors="coerce").fillna(0.0)
ToNumericFill0(cell) == IF cell.kind = "ok" THEN cell.v ELSE 0

PaidOffByOne(h, shift_hours) == IF h > shift_hours THEN h - 1 ELSE h
Paid(h, shift_hours) == IF h >= shift_hours THEN h - 1 ELSE h

IsKenyaEmployee(tbl, r) ==
    IF "surfer_timezone" \in tbl.cols THEN r.surfer_timezone = KENYA_TZ ELSE FALSE

IsBankHolidayIgnoreRegion(enable_kenyan_bh, is_kenya_employee, shift_date) ==
    IF enable_kenyan_bh
    THEN shift_date \in KENYA_BANK_HOLIDAYS_2025
    ELSE FALSE
IsBankHoliday(enable_kenyan_bh, is_kenya_employee, shift_date) ==
    IF enable_kenyan_bh
    THEN IF ~is_kenya_employee THEN FALSE
         ELSE shift_date \in KENYA_BANK_HOLIDAYS_2025
    ELSE FALSE

PreparedCols ==
    {"day_name", "hours_worked", "scheduled_hours", "paid_hours", "first_name",
     "last_name", "full_name", "week_start", "shift_name", "is_kenya_employee",
     "is_bank_holiday"}

PrepareRow(tbl, i, c) ==
    LET r == tbl.rows[i]
        shift_date == ToDatetime(r.shift_date)
        scheduled_hours ==
            IF "total_scheduled" \in tbl.cols THEN ToNumericFill0(r.total_scheduled) ELSE 0
        kenya == IsKenyaEmployee(tbl, r)
    IN [idx |-> i - 1,
        email |-> r.email,
        shift_date |-> shift_date,
        scheduled_hours |-> scheduled_hours,
        paid_hours |-> Paid(scheduled_hours, c.shift_hours),
        full_name |-> r.full_name,
        week_start |-> WeekStart(shift_date),
        is_kenya_employee |-> kenya,
        is_bank_holiday |-> IsBankHoliday(c.enable_kenyan_bh, kenya, shift_date)]

\* What makes prepare_shifts raise: no shift_date column (KeyError), a date
\* that does not parse (pd.to_datetime), or, with the holiday rules on, a
\* table of zero rows: DataFrame.apply(axis=1) of an empty frame returns the
\* frame, and assigning a frame of several columns to one column raises.
PrepareRaises(tbl, c) ==
    \/ "shift_date" \notin tbl.cols
    \/ \E i \in 1..Len(tbl.rows) : ~DateParses(tbl.rows[i].shift_date)
    \/ c.enable_kenyan_bh /\ tbl.rows = <<>>

prepare_shifts(tbl, c) ==
    [cols |-> tbl.cols \cup PreparedCols,
     rows |-> [i \in 1..Len(tbl.rows) |-> PrepareRow(tbl, i, c)]]

(***************************************************************************)
(* flag_overtime_days                                                      *)
(***************************************************************************)
SortKey(r) == <<EmailRank(r.email), DateRank(r.week_start), DateRank(r.shift_date)>>

SortValuesUnsorted(rows) == rows
\* df.sort_values(["email", "week_start", "shift_date"])
SortValues(rows) == StableSort(rows, [i \in 1..Len(rows) |-> SortKey(rows[i])])

\* groupby(["email", "week_start"]) with the default dropna=True: a row with
\* a missing key belongs to no group.
HasGroupKey(r) == r.email # NaN /\ r.week_start # NaT

GroupOf(rows, r) ==
    SelectRows(rows, {i \in 1..Len(rows) : /\ HasGroupKey(rows[i])
                                           /\ rows[i].email = r.email
                                           /\ rows[i].week_start = r.week_start})

UniqueDates(group) == Unique([i \in 1..Len(group) |-> group[i].shift_date])

OtDatesSkipOne(unique_dates, n) ==
    IF Len(unique_dates) <= n THEN {}
    ELSE Range(SubSeq(unique_dates, n + 2, Len(unique_dates)))
\* _mark_group: the dates of unique_dates[contracted_days_per_week:], none
\* when the group has at most contracted_days_per_week dates.
OtDates(unique_dates, n) ==
    IF Len(unique_dates) <= n THEN {}
    ELSE Range(SubSeq(unique_dates, n + 1, Len(unique_dates)))

WithField(r, name, value) == (name :> value) @@ r

\* The groups' rows, concatenated and reindexed to the sorted frame's index
\* without the rows that belong to no group.
flag_overtime_days(rows, n) ==
    LET sorted == SortValues(rows)
        kept == SelectRows(sorted, {i \in 1..Len(sorted) : HasGroupKey(sorted[i])})
    IN [i \in 1..Len(kept) |->
          WithField(kept[i], "is_ot_day",
                    kept[i].shift_date \in OtDates(UniqueDates(GroupOf(sorted, kept[i])), n))]

(***************************************************************************)
(* add_shift_duration_and_flags                                            *)
(***************************************************************************)
\* A quotient of two numbers is kept exact, as numerator and denominator.
Rat(n, d) == [num |-> n, den |-> d]
RatAdd(a, b) == [num |-> a.num * b.den + b.num * a.den, den |-> a.den * b.den]
RatEqInt(a, n) == a.num = n * a.den

RECURSIVE RatSum(_)
RatSum(s) == IF s = <<>> THEN Rat(0, 1) ELSE RatAdd(Head(s), RatSum(Tail(s)))

\* The values of one column.
Column(rows, name) == [i \in 1..Len(rows) |-> rows[i][name]]

\* Sum of a boolean column: the number of rows where it is true.
CountTrue(s) == Cardinality({i \in 1..Len(s) : s[i]})

DerivedCols == {"shift_days", "ot_hours", "bh_hours"}

OtHoursUnlessHoliday(r) ==
    IF r.is_ot_day /\ ~r.is_bank_holiday THEN r.scheduled_hours ELSE 0
OtHours(r) == IF r.is_ot_day THEN r.scheduled_hours ELSE 0
BhHours(r) == IF r.is_bank_holiday THEN r.scheduled_hours ELSE 0

add_shift_duration_and_flags(rows, shift_hours) ==
    [i \in 1..Len(rows) |->
        WithField(WithField(WithField(rows[i],
            "shift_days", Rat(rows[i].scheduled_hours, shift_hours)),
            "ot_hours", OtHours(rows[i])),
            "bh_hours", BhHours(rows[i]))]

(***************************************************************************)
(* build_granular_table                                                    *)
(***************************************************************************)
DayTypeOtFirst(row) ==
    IF row.is_ot_day THEN "Overtime"
    ELSE IF row.is_bank_holiday THEN "Bank holiday"
    ELSE "Standard"
\* _day_type
DayType(row) ==
    IF row.is_bank_holiday THEN "Bank holiday"
    ELSE IF row.is_ot_day THEN "Overtime"
    ELSE "Standard"

GranularCols ==
    {"team", "full_name", "email", "date", "day_type", "shift_name",
     "scheduled_hours", "shift_days"}

GranularKey(r) == <<NameRank(r.full_name), DateRank(r.date)>>

build_granular_table(tbl, team_name) ==
    LET granular ==
            SelectRows(tbl.rows, {i \in 1..Len(tbl.rows) :
                                      tbl.rows[i].is_ot_day \/ tbl.rows[i].is_bank_holiday})
        labelled ==
            [i \in 1..Len(granular) |->
                [idx |-> granular[i].idx,
                 team |-> team_name,
                 full_name |-> granular[i].full_name,
                 email |-> granular[i].email,
                 date |-> granular[i].shift_date,
                 day_type |-> DayType(granular[i]),
                 scheduled_hours |-> granular[i].scheduled_hours,
                 shift_days |-> granular[i].shift_days]]
    IN IF granular = <<>>
       THEN [cols |-> tbl.cols, rows |-> granular]
       ELSE [cols |-> GranularCols,
             rows |-> StableSort(labelled,
                                 [i \in 1..Len(labelled) |-> GranularKey(labelled[i])])]

(***************************************************************************)
(* build_summary_table                                                     *)
(***************************************************************************)
PersonKey(k) == <<NameRank(k[1]), EmailRank(k[2])>>

\* The (full_name, email) groups of a frame, in key order.  The team is the
\* same on every row.
PersonKeys(rows) ==
    LET keys == SetToSeq({<<rows[i].full_name, rows[i].email>> : i \in 1..Len(rows)})
    IN StableSort(keys, [i \in 1..Len(keys) |-> PersonKey(keys[i])])

OfPerson(rows, k) ==
    SelectRows(rows, {i \in 1..Len(rows) : rows[i].full_name = k[1] /\ rows[i].email = k[2]})

SummaryCols == {"team", "full_name", "email", "days_OT", "days_BH", "hours_OT", "hours_BH"}

build_summary_table(tbl, team_name) ==
    LET keys == PersonKeys(tbl.rows)
    IN [cols |-> SummaryCols,
        rows |-> [i \in 1..Len(keys) |->
            LET g == OfPerson(tbl.rows, keys[i])
            IN [team |-> team_name,
                full_name |-> keys[i][1],
                email |-> keys[i][2],
                days_OT |-> CountTrue(Column(g, "is_ot_day")),
                days_BH |-> CountTrue(Column(g, "is_bank_holiday")),
                hours_OT |-> SumSeq(Column(g, "ot_hours")),
                hours_BH |-> SumSeq(Column(g, "bh_hours"))]]]

(***************************************************************************)
(* build_pivot_from_granular                                               *)
(***************************************************************************)
OfDayType(rows, t) == SelectRows(rows, {i \in 1..Len(rows) : rows[i].day_type = t})

\* pivot_table(..., aggfunc="sum", fill_value=0) then the rename: a value
\* column exists for the day types that occur in the granular table only.
PivotCell(g, col) ==
    CASE col = "team" -> g[1].team
      [] col = "full_name" -> g[1].full_name
      [] col = "email" -> g[1].email
      [] col = "days_OT" -> RatSum(Column(OfDayType(g, "Overtime"), "shift_days"))
      [] col = "days_BH" -> RatSum(Column(OfDayType(g, "Bank holiday"), "shift_days"))
      [] col = "hours_OT" -> SumSeq(Column(OfDayType(g, "Overtime"), "scheduled_hours"))
      [] col = "hours_BH" -> SumSeq(Column(OfDayType(g, "Bank holiday"), "scheduled_hours"))

PivotCols(rows) ==
    {"team", "full_name", "email"}
    \cup (IF \E i \in 1..Len(rows) : rows[i].day_type = "Overtime"
          THEN {"days_OT", "hours_OT"} ELSE {})
    \cup (IF \E i \in 1..Len(rows) : rows[i].day_type = "Bank holiday"
          THEN {"days_BH", "hours_BH"} ELSE {})

build_pivot_from_granular(granular) ==
    IF granular.rows = <<>> THEN granular
    ELSE LET keys == PersonKeys(granular.rows)
             cols == PivotCols(granular.rows)
         IN [cols |-> cols,
             rows |-> [i \in 1..Len(keys) |->
                          [c \in cols |-> PivotCell(OfPerson(granular.rows, keys[i]), c)]]]

(***************************************************************************)
(* build_teams_with_ot                                                     *)
(***************************************************************************)
TeamsCols == {"team", "total_ot_hours", "total_bh_hours", "people_with_ot", "people_with_bh"}

TeamNames(rows) == SetToSeq({rows[i].team : i \in 1..Len(rows)})

TeamRow(rows, t) ==
    LET g == SelectRows(rows, {i \in 1..Len(rows) : rows[i].team = t})
    IN [team |-> t,
        total_ot_hours |-> SumSeq(Column(g, "hours_OT")),
        total_bh_hours |-> SumSeq(Column(g, "hours_BH")),
        people_with_ot |-> Cardinality({i \in 1..Len(g) : g[i].hours_OT > 0}),
        people_with_bh |-> Cardinality({i \in 1..Len(g) : g[i].hours_BH > 0})]

TeamShownOtOnly(t) == t.total_ot_hours > 0
TeamShown(t) == t.total_ot_hours > 0 \/ t.total_bh_hours > 0

build_teams_with_ot(summary) ==
    IF summary.rows = <<>> THEN summary
    ELSE LET names == TeamNames(summary.rows)
             teams == [i \in 1..Len(names) |-> TeamRow(summary.rows, names[i])]
         IN [cols |-> TeamsCols,
             rows |-> SelectRows(teams, {i \in 1..Len(teams) : TeamShown(teams[i])})]

(***************************************************************************)
(* summarise_weekly_hours, summarise_monthly_hours                         *)
(***************************************************************************)
PeriodKey(k) == <<NameRank(k[1]), EmailRank(k[2]), DateRank(k[3])>>

PeriodCols(period) ==
    {"team", "full_name", "email", period, "total_scheduled", "total_ot", "total_bh"}

\* The aggregation with "last" in the place of "sum".
SummarisePeriodLast(rows, team_name, period, periods) ==
    LET keyset == {<<rows[i].full_name, rows[i].email, periods[i]>> : i \in 1..Len(rows)}
        unsorted == SetToSeq(keyset)
        keys == StableSort(unsorted, [i \in 1..Len(unsorted) |-> PeriodKey(unsorted[i])])
    IN [i \in 1..Len(keys) |->
          LET g == SelectRows(rows, {j \in 1..Len(rows) :
                                        /\ rows[j].full_name = keys[i][1]
                                        /\ rows[j].email = keys[i][2]
                                        /\ periods[j] = keys[i][3]})
          IN WithField([team |-> team_name,
                        full_name |-> keys[i][1],
                        email |-> keys[i][2],
                        total_scheduled |-> g[Len(g)].scheduled_hours,
                        total_ot |-> g[Len(g)].ot_hours,
                        total_bh |-> g[Len(g)].bh_hours],
                       period, keys[i][3])]

\* groupby([team, full_name, email, <period>]).agg(sum), period being the
\* name of the period column and periods[i] row i's week_start or month.
SummarisePeriod(rows, team_name, period, periods) ==
    LET keyset == {<<rows[i].full_name, rows[i].email, periods[i]>> : i \in 1..Len(rows)}
        unsorted == SetToSeq(keyset)
        keys == StableSort(unsorted, [i \in 1..Len(unsorted) |-> PeriodKey(unsorted[i])])
    IN [i \in 1..Len(keys) |->
          LET g == SelectRows(rows, {j \in 1..Len(rows) :
                                        /\ rows[j].full_name = keys[i][1]
                                        /\ rows[j].email = keys[i][2]
                                        /\ periods[j] = keys[i][3]})
          IN WithField([team |-> team_name,
                        full_name |-> keys[i][1],
                        email |-> keys[i][2],
                        total_scheduled |-> SumSeq(Column(g, "scheduled_hours")),
                        total_ot |-> SumSeq(Column(g, "ot_hours")),
                        total_bh |-> SumSeq(Column(g, "bh_hours"))],
                       period, keys[i][3])]

summarise_weekly_hours(tbl, team_name) ==
    IF tbl.rows = <<>> THEN tbl
    ELSE [cols |-> PeriodCols("week_start"),
          rows |-> SummarisePeriod(tbl.rows, team_name, "week_start",
                                   Column(tbl.rows, "week_start"))]

summarise_monthly_hours(tbl, team_name) ==
    IF tbl.rows = <<>> THEN tbl
    ELSE [cols |-> PeriodCols("month"),
          rows |-> SummarisePeriod(tbl.rows, team_name, "month",
                                   [i \in 1..Len(tbl.rows) |-> MonthStart(tbl.rows[i].shift_date)])]

(***************************************************************************)
(* Pipeline (app.py 441-459)                                               *)
(***************************************************************************)
Unset == [cols |-> {}, rows |-> <<>>]

PrepareShifts ==
    /\ pc = "prepare_shifts"
    /\ IF PrepareRaises(raw, cfg)
       THEN /\ pc' = "error"
            /\ df' = df
       ELSE /\ pc' = "flag_overtime_days"
            /\ df' = prepare_shifts(raw, cfg)
    /\ UNCHANGED <<raw, cfg, summary_table, granular_table, pivot_table,
                   weekly_summary, monthly_summary, teams_with_ot>>

\* sort_values raises KeyError when the frame has no email column.
FlagOvertimeDays ==
    /\ pc = "flag_overtime_days"
    /\ IF "email" \notin df.cols
       THEN /\ pc' = "error"
            /\ df' = df
       ELSE /\ pc' = "add_shift_duration_and_flags"
            /\ df' = [cols |-> df.cols \cup {"is_ot_day"},
                      rows |-> flag_overtime_days(df.rows, cfg.contracted_days_per_week)]
    /\ UNCHANGED <<raw, cfg, summary_table, granular_table, pivot_table,
                   weekly_summary, monthly_summary, teams_with_ot>>

AddShiftDurationAndFlags ==
    /\ pc = "add_shift_duration_and_flags"
    /\ pc' = "build_summary_table"
    /\ df' = [cols |-> df.cols \cup DerivedCols,
              rows |-> add_shift_duration_and_flags(df.rows, cfg.shift_hours)]
    /\ UNCHANGED <<raw, cfg, summary_table, granular_table, pivot_table,
                   weekly_summary, monthly_summary, teams_with_ot>>

BuildSummaryTable ==
    /\ pc = "build_summary_table"
    /\ pc' = "build_granular_table"
    /\ summary_table' = build_summary_table(df, cfg.team_name)
    /\ UNCHANGED <<raw, cfg, df, granular_table, pivot_table,
                   weekly_summary, monthly_summary, teams_with_ot>>

BuildGranularTable ==
    /\ pc = "build_granular_table"
    /\ pc' = "build_pivot_from_granular"
    /\ granular_table' = build_granular_table(df, cfg.team_name)
    /\ UNCHANGED <<raw, cfg, df, summary_table, pivot_table,
                   weekly_summary, monthly_summary, teams_with_ot>>

BuildPivotFromGranular ==
    /\ pc = "build_pivot_from_granular"
    /\ pc' = "summarise_weekly_hours"
    /\ pivot_table' = build_pivot_from_granular(granular_table)
    /\ UNCHANGED <<raw, cfg, df, summary_table, granular_table,
                   weekly_summary, monthly_summary, teams_with_ot>>

SummariseWeeklyHours ==
    /\ pc = "summarise_weekly_hours"
    /\ pc' = "summarise_monthly_hours"
    /\ weekly_summary' = summarise_weekly_hours(df, cfg.team_name)
    /\ UNCHANGED <<raw, cfg, df, summary_table, granular_table, pivot_table,
                   monthly_summary, teams_with_ot>>

SummariseMonthlyHours ==
    /\ pc = "summarise_monthly_hours"
    /\ pc' = "build_teams_with_ot"
    /\ monthly_summary' = summarise_monthly_hours(df, cfg.team_name)
    /\ UNCHANGED <<raw, cfg, df, summary_table, granular_table, pivot_table,
                   weekly_summary, teams_with_ot>>

BuildTeamsWithOt ==
    /\ pc = "build_teams_with_ot"
    /\ pc' = "done"
    /\ teams_with_ot' = build_teams_with_ot(summary_table)
    /\ UNCHANGED <<raw, cfg, df, summary_table, granular_table, pivot_table,
                   weekly_summary, monthly_summary>>

Next ==
    \/ PrepareShifts
    \/ FlagOvertimeDays
    \/ AddShiftDurationAndFlags
    \/ BuildSummaryTable
    \/ BuildGranularTable
    \/ BuildPivotFromGranular
    \/ SummariseWeeklyHours
    \/ SummariseMonthlyHours
    \/ BuildTeamsWithOt

(***************************************************************************)
(* Inputs                                                                  *)
(***************************************************************************)
Cell(v) == [kind |-> "ok", v |-> v]
TextCell == [kind |-> "text", v |-> 0]
NanCell == [kind |-> "nan", v |-> 0]

AllCols == {"shift_date", "first_name", "last_name", "email", "total_scheduled",
            "subtype", "surfer_timezone"}

Tables(RowSet) == UNION {[1..n -> RowSet] : n \in 0..MaxRows}

RawTables(cols, RowSet) == {[cols |-> cols, rows |-> t] : t \in Tables(RowSet)}

InitFrom(RawSet, Cfgs) ==
    /\ raw \in RawSet
    /\ cfg \in Cfgs
    /\ pc = "prepare_shifts"
    /\ df = Unset
    /\ summary_table = Unset
    /\ granular_table = Unset
    /\ pivot_table = Unset
    /\ weekly_summary = Unset
    /\ monthly_summary = Unset
    /\ teams_with_ot = Unset

Config(team, days, bh) ==
    [team_name |-> team, shift_hours |-> SHIFT_HOURS_BY_TEAM[team],
     contracted_days_per_week |-> days, enable_kenyan_bh |-> bh]

NameOf(e) == IF e = "brian@nala.money" THEN "Brian B" ELSE "Amina A"

RawRow(e, date, hours, tz) ==
    [email |-> e, shift_date |-> date, total_scheduled |-> hours,
     surfer_timezone |-> tz, full_name |-> NameOf(e)]

Amina == "amina@nala.money"
Brian == "brian@nala.money"

\* Overtime classification: two people, four dates of the week of Monday
\* 2025-04-28 and the Monday after, in every order of the rows.
RowsOT ==
    {RawRow(e, Cell(d), Cell(9), KENYA_TZ) :
        e \in {Amina, Brian}, d \in {118, 120, 121, 123, 125}}

InitOT ==
    InitFrom(RawTables(AllCols, RowsOT),
             {Config("Fraud Operations", n, TRUE) : n \in 0..MaxContracted})

SpecOT == InitOT /\ [][Next]_vars

\* Aggregation: Kenyan shifts of 8 or 9 hours on two plain dates and on
\* Labour Day (121), so that a shift can be overtime, bank holiday, both or
\* neither, and shorter than the 9-hour shift length.
RowsAgg ==
    {RawRow(e, Cell(d), Cell(h), KENYA_TZ) :
        e \in {Amina, Brian}, d \in {118, 120, 121}, h \in {8, 9}}

InitAgg ==
    InitFrom(RawTables(AllCols, RowsAgg),
             {Config("Fraud Operations", n, TRUE) : n \in {0, 1, 2}})

SpecAgg == InitAgg /\ [][Next]_vars

\* Team roll-up: hours that are negative, zero or positive (pd.to_numeric
\* accepts "-2"), on a plain date and on Labour Day.
RowsTeams ==
    {RawRow(e, Cell(d), Cell(h), KENYA_TZ) :
        e \in {Amina, Brian}, d \in {120, 121}, h \in {0 - 2, 0, 9}}

InitTeams ==
    InitFrom(RawTables(AllCols, RowsTeams),
             {Config("Fraud Operations", n, TRUE) : n \in {0, 2}})

SpecTeams == InitTeams /\ [][Next]_vars

\* Paid hours: hours around both shift lengths (9 and 12), text that is no
\* number ("N/A"), an empty cell, and a file without the column.
RowsPaid ==
    {RawRow(Amina, Cell(118), h, KENYA_TZ) :
        h \in {Cell(v) : v \in {0 - 2, 0, 8, 9, 11, 12, 13}} \cup {TextCell, NanCell}}

InitPaid ==
    InitFrom(RawTables(AllCols, RowsPaid)
                 \cup RawTables(AllCols \ {"total_scheduled"},
                                {RawRow(Amina, Cell(118), NanCell, KENYA_TZ)}),
             {Config(t, 5, TRUE) : t \in {"Fraud Operations", "Core Ops / Payment Ops"}})

SpecPaid == InitPaid /\ [][Next]_vars

\* Bank holidays: region Nairobi, another region, an empty region cell or no
\* region column; a plain date, Labour Day or an empty date cell; the
\* holiday rules on or off.
RowsBH ==
    {RawRow(Amina, d, Cell(9), tz) :
        d \in {Cell(120), Cell(121), NanCell}, tz \in {KENYA_TZ, "Europe/London", NaN}}

InitBH ==
    InitFrom(RawTables(AllCols, RowsBH)
                 \cup RawTables(AllCols \ {"surfer_timezone"},
                                {RawRow(Amina, d, Cell(9), NaN) :
                                    d \in {Cell(120), Cell(121), NanCell}}),
             {Config("Fraud Operations", 5, bh) : bh \in BOOLEAN})

SpecBH == InitBH /\ [][Next]_vars

\* Malformed and empty input: an empty email cell or no email column; a
\* date that does not parse, an empty date cell or no shift_date column; the
\* file of zero rows is Tables' table of length 0.
RowsPipe ==
    {RawRow(e, d, Cell(9), KENYA_TZ) :
        e \in {Amina, NaN}, d \in {Cell(120), Cell(121), TextCell, NanCell}}

InitPipe ==
    InitFrom(RawTables(AllCols, RowsPipe)
                 \cup RawTables(AllCols \ {"email"},
                                {RawRow(NaN, Cell(d), Cell(9), KENYA_TZ) : d \in {120, 121}})
                 \cup RawTables(AllCols \ {"shift_date"},
                                {RawRow(Amina, NanCell, Cell(9), KENYA_TZ)}),
             {Config("Fraud Operations", n, bh) : n \in {0, 5}, bh \in BOOLEAN})

SpecPipe == InitPipe /\ [][Next]_vars

\* A row whose name cells are given: full_name is
\* first_name.strip() + " " + last_name.strip(), which keeps the cells'
\* letter case.
NamedRow(e, name, date, hours, tz) ==
    [email |-> e, shift_date |-> date, total_scheduled |-> hours,
     surfer_timezone |-> tz, full_name |-> name]

\* Names: the file's name cells are free text beside the email, so one
\* person's rows can spell the name in two ways ("Amina A", "amina a");
\* a Monday, a plain date and Labour Day of one week.
RowsNames ==
    {NamedRow(Amina, name, Cell(d), Cell(9), KENYA_TZ) :
        name \in {"Amina A", "amina a"}, d \in {118, 120, 121}}
    \cup {RawRow(Brian, Cell(d), Cell(9), KENYA_TZ) : d \in {118, 120, 121}}

InitNames ==
    InitFrom(RawTables(AllCols, RowsNames),
             {Config("Fraud Operations", n, TRUE) : n \in {0, 5}})

SpecNames == InitNames /\ [][Next]_vars

(***************************************************************************)
(* Overtime classification (flag_overtime_days)                            *)
(***************************************************************************)
\* The frame carries is_ot_day.
Flagged == "is_ot_day" \in df.cols

Buckets == {<<df.rows[i].email, df.rows[i].week_start>> : i \in 1..Len(df.rows)}

InBucket(r, b) == r.email = b[1] /\ r.week_start = b[2]

\* The distinct calendar dates worked in a bucket, and those of them that
\* carry is_ot_day on some shift.
WorkedDates(b) ==
    {df.rows[i].shift_date : i \in {j \in 1..Len(df.rows) : InBucket(df.rows[j], b)}}
FlaggedDates(b) ==
    {df.rows[i].shift_date :
        i \in {j \in 1..Len(df.rows) : InBucket(df.rows[j], b) /\ df.rows[j].is_ot_day}}

Max0(n) == IF n < 0 THEN 0 ELSE n

\* C1 as stated: in every (email, week_start) bucket the number of distinct
\* dates flagged is_ot_day is at most (distinct worked dates - contracted
\* days), and is that number when distinct worked dates > contracted days.
C1_OtDatesAtMostDifference ==
    Flagged =>
        \A b \in Buckets :
            LET worked == Cardinality(WorkedDates(b))
                flagged == Cardinality(FlaggedDates(b))
                n == cfg.contracted_days_per_week
            IN /\ flagged <= worked - n
               /\ worked > n => flagged = worked - n

\* C1 amended: the number of distinct dates flagged is_ot_day is at most
\* max(0, distinct worked dates - contracted days): it is 0 when the bucket
\* has at most contracted days dates (the difference is then negative or 0),
\* and exactly the difference when distinct worked dates > contracted days.
C1_OtDatesCount ==
    Flagged =>
        \A b \in Buckets :
            LET worked == Cardinality(WorkedDates(b))
                flagged == Cardinality(FlaggedDates(b))
                n == cfg.contracted_days_per_week
            IN /\ flagged <= Max0(worked - n)
               /\ worked > n => flagged = worked - n
               /\ worked <= n => flagged = 0

\* A week of three worked dates under two contracted days (one overtime
\* date), beside a week with fewer dates than contracted days.
C1_Witness ==
    /\ Flagged
    /\ cfg.contracted_days_per_week = 2
    /\ \E b \in Buckets : Cardinality(WorkedDates(b)) = 3 /\ Cardinality(FlaggedDates(b)) = 1

\* The ascending position (from 0) of date d among the distinct dates S.
IndexAscending(S, d) == Cardinality({x \in S : x < d})

\* C2: a shift is flagged is_ot_day iff its (email, week_start) bucket has
\* more than contracted_days_per_week distinct dates and the shift's date
\* stands at index contracted_days_per_week or later in the ascending list
\* of those dates, whatever the order of the rows in the file.
C2_OtByAscendingDate ==
    Flagged =>
        \A i \in 1..Len(df.rows) :
            LET r == df.rows[i]
                S == WorkedDates(<<r.email, r.week_start>>)
                n == cfg.contracted_days_per_week
            IN r.is_ot_day <=> (Cardinality(S) > n /\ IndexAscending(S, r.shift_date) >= n)

\* The file lists a later date of a week before an earlier one, two shifts
\* share the overtime date and both are flagged, the earlier date is not.
C2_Witness ==
    /\ Flagged
    /\ cfg.contracted_days_per_week = 1
    /\ \E i, j \in 1..Len(raw.rows) :
          /\ i < j
          /\ raw.rows[i].email = raw.rows[j].email
          /\ raw.rows[i].shift_date.v = 121
          /\ raw.rows[j].shift_date.v = 118
    /\ \E i, j, k \in 1..Len(df.rows) :
          /\ i # j
          /\ df.rows[i].email = df.rows[j].email /\ df.rows[i].email = df.rows[k].email
          /\ df.rows[i].shift_date = 121 /\ df.rows[i].is_ot_day
          /\ df.rows[j].shift_date = 121 /\ df.rows[j].is_ot_day
          /\ df.rows[k].shift_date = 118 /\ ~df.rows[k].is_ot_day

(***************************************************************************)
(* Aggregated views                                                        *)
(***************************************************************************)
\* A table of the run has been computed.
Built(t) == t # Unset

SamePerson(a, b) == a.team = b.team /\ a.full_name = b.full_name /\ a.email = b.email

\* A pivot cell, a value column the pivot lacks reading as its fill value 0.
PivotHours(p, col) == IF col \in pivot_table.cols THEN p[col] ELSE 0
PivotDays(p, col) == IF col \in pivot_table.cols THEN p[col] ELSE Rat(0, 1)

\* C3: a person's rows of the pivot (built from the granular table) and of
\* the summary agree on days_OT, days_BH, hours_OT and hours_BH.
C3_PivotAgreesWithSummary ==
    (Built(pivot_table) /\ Built(summary_table)) =>
        \A i \in 1..Len(pivot_table.rows) : \A j \in 1..Len(summary_table.rows) :
            LET p == pivot_table.rows[i]
                t == summary_table.rows[j]
            IN SamePerson(p, t) =>
                /\ PivotHours(p, "hours_OT") = t.hours_OT
                /\ PivotHours(p, "hours_BH") = t.hours_BH
                /\ RatEqInt(PivotDays(p, "days_OT"), t.days_OT)
                /\ RatEqInt(PivotDays(p, "days_BH"), t.days_BH)

\* The enriched shifts of the person of summary row t with the flag set.
ShiftsOf(t, flag) ==
    SelectRows(df.rows, {i \in 1..Len(df.rows) : /\ df.rows[i].full_name = t.full_name
                                                 /\ df.rows[i].email = t.email
                                                 /\ df.rows[i][flag]})

\* C4: every person of the enriched table has a summary row, whose hours_OT
\* is the sum of scheduled_hours over the person's shifts with is_ot_day and
\* whose hours_BH is that sum over the shifts with is_bank_holiday; a shift
\* with both flags counts in both sums, whatever day_type it is given.
C4_SummaryHours ==
    Built(summary_table) =>
        /\ \A i \in 1..Len(df.rows) : \E j \in 1..Len(summary_table.rows) :
              /\ summary_table.rows[j].full_name = df.rows[i].full_name
              /\ summary_table.rows[j].email = df.rows[i].email
        /\ \A j \in 1..Len(summary_table.rows) :
              LET t == summary_table.rows[j]
              IN /\ t.hours_OT = SumSeq(Column(ShiftsOf(t, "is_ot_day"), "scheduled_hours"))
                 /\ t.hours_BH = SumSeq(Column(ShiftsOf(t, "is_bank_holiday"), "scheduled_hours"))

\* A person with one shift that is overtime and bank holiday at once, whose
\* 9 hours are in both totals, beside an overtime shift of 8 hours.
C4_Witness ==
    /\ Built(summary_table)
    /\ \E j \in 1..Len(summary_table.rows) :
          /\ summary_table.rows[j].hours_OT = 17
          /\ summary_table.rows[j].hours_BH = 9
          /\ \E i \in 1..Len(df.rows) :
                /\ df.rows[i].email = summary_table.rows[j].email
                /\ df.rows[i].is_ot_day /\ df.rows[i].is_bank_holiday
                /\ df.rows[i].scheduled_hours = 9

OtOrBh == {i \in 1..Len(df.rows) : df.rows[i].is_ot_day \/ df.rows[i].is_bank_holiday}

\* C5: the granular table has one row per enriched shift with is_ot_day or
\* is_bank_holiday and no other row; a row is labelled "Bank holiday" when
\* its shift has is_bank_holiday (also with is_ot_day), "Overtime" when it
\* has is_ot_day only, and never "Standard".
C5_GranularRows ==
    Built(granular_table) =>
        /\ Len(granular_table.rows) = Cardinality(OtOrBh)
        /\ \A i \in OtOrBh : \E k \in 1..Len(granular_table.rows) :
              /\ granular_table.rows[k].idx = df.rows[i].idx
              /\ granular_table.rows[k].day_type =
                    IF df.rows[i].is_bank_holiday THEN "Bank holiday" ELSE "Overtime"
        /\ \A k \in 1..Len(granular_table.rows) :
              /\ \E i \in OtOrBh : df.rows[i].idx = granular_table.rows[k].idx
              /\ granular_table.rows[k].day_type # "Standard"

\* A standard shift left out, an overtime shift, and a shift with both flags
\* labelled "Bank holiday".
C5_Witness ==
    /\ Built(granular_table)
    /\ Len(df.rows) = 3
    /\ Len(granular_table.rows) = 2
    /\ \E k \in 1..2 : granular_table.rows[k].day_type = "Overtime"
    /\ \E k \in 1..2 : \E i \in 1..3 :
          /\ granular_table.rows[k].day_type = "Bank holiday"
          /\ df.rows[i].idx = granular_table.rows[k].idx
          /\ df.rows[i].is_ot_day

\* The totals of a team over its summary rows.
TeamTotal(t, col) ==
    SumSeq(Column(SelectRows(summary_table.rows,
                             {i \in 1..Len(summary_table.rows) : summary_table.rows[i].team = t}),
                  col))

SummaryTeams == {summary_table.rows[i].team : i \in 1..Len(summary_table.rows)}

RollupTeams == {teams_with_ot.rows[k].team : k \in 1..Len(teams_with_ot.rows)}

Prepared == "paid_hours" \in df.cols

\* The row of the file that row r of the frame comes from (the frame keeps
\* the file's index through sorting and filtering).
RawOf(r) == raw.rows[r.idx + 1]

\* C6: paid_hours <= scheduled_hours; paid_hours = scheduled_hours - 1 iff
\* scheduled_hours >= the team's shift length (also when equal to it), and
\* paid_hours = scheduled_hours otherwise.
C6_PaidHours ==
    Prepared =>
        \A i \in 1..Len(df.rows) :
            LET r == df.rows[i]
            IN /\ r.paid_hours <= r.scheduled_hours
               /\ (r.paid_hours = r.scheduled_hours - 1) <=> (r.scheduled_hours >= cfg.shift_hours)
               /\ r.scheduled_hours < cfg.shift_hours => r.paid_hours = r.scheduled_hours

\* A shift of exactly the 12-hour shift length, paid 11 hours, beside a
\* 9-hour shift paid in full.
C6_Witness ==
    /\ Prepared
    /\ cfg.shift_hours = 12
    /\ \E i, j \in 1..Len(df.rows) :
          /\ RawOf(df.rows[i]).total_scheduled = Cell(12)
          /\ df.rows[i].scheduled_hours = 12 /\ df.rows[i].paid_hours = 11
          /\ df.rows[j].scheduled_hours = 9 /\ df.rows[j].paid_hours = 9

\* The region recorded for a row of the file is the holiday region.
RegionMatches(rawrow) ==
    "surfer_timezone" \in raw.cols /\ rawrow.surfer_timezone = KENYA_TZ

\* C10: is_bank_holiday holds iff the holiday rules are enabled, the shift's
\* recorded region is the holiday region and shift_date is in the holiday
\* calendar; so never with the rules disabled and never without a region.
C10_BankHoliday ==
    Prepared =>
        \A i \in 1..Len(df.rows) :
            df.rows[i].is_bank_holiday <=>
                /\ cfg.enable_kenyan_bh
                /\ RegionMatches(RawOf(df.rows[i]))
                /\ RawOf(df.rows[i]).shift_date.kind = "ok"
                /\ RawOf(df.rows[i]).shift_date.v \in KENYA_BANK_HOLIDAYS_2025

\* Labour Day worked in Nairobi (a bank holiday), elsewhere and with no
\* region recorded (not one).
C10_Witness ==
    /\ Prepared
    /\ cfg.enable_kenyan_bh
    /\ \A i \in 1..Len(df.rows) : df.rows[i].shift_date = 121
    /\ \E i, j, k \in 1..Len(df.rows) :
          /\ RawOf(df.rows[i]).surfer_timezone = KENYA_TZ /\ df.rows[i].is_bank_holiday
          /\ RawOf(df.rows[j]).surfer_timezone = "Europe/London" /\ ~df.rows[j].is_bank_holiday
          /\ RawOf(df.rows[k]).surfer_timezone = NaN /\ ~df.rows[k].is_bank_holiday

(***************************************************************************)
(* Malformed and empty input                                               *)
(***************************************************************************)
\* Raw row i lacks its email or carries a date that does not parse.
Malformed(i) ==
    \/ "email" \notin raw.cols
    \/ raw.rows[i].email = NaN
    \/ ~DateParses(raw.rows[i].shift_date)

\* C7: a row with a missing email or an unparseable date makes the run fail;
\* a run that completes has every input row in the output of
\* flag_overtime_days and in a person group of the summary.
C7_NoRowSilentlyDropped ==
    pc = "done" =>
        \A i \in 1..Len(raw.rows) :
            /\ ~Malformed(i)
            /\ \E k \in 1..Len(df.rows) : df.rows[k].idx = i - 1
            /\ \E j \in 1..Len(summary_table.rows) :
                  summary_table.rows[j].email = raw.rows[i].email

\* C8: a file of zero rows (with every column in its header) raises no
\* error, and each of the six outputs is a table of zero rows with the
\* columns it has for a file with rows.
C8_EmptyInputWellTyped ==
    (raw.rows = <<>> /\ raw.cols = AllCols) =>
        /\ pc # "error"
        /\ pc = "done" =>
              /\ granular_table = [cols |-> GranularCols, rows |-> <<>>]
              /\ summary_table = [cols |-> SummaryCols, rows |-> <<>>]
              /\ pivot_table.rows = <<>>
              /\ {"team", "full_name", "email"} \subseteq pivot_table.cols
              /\ pivot_table.cols \subseteq SummaryCols
              /\ weekly_summary = [cols |-> PeriodCols("week_start"), rows |-> <<>>]
              /\ monthly_summary = [cols |-> PeriodCols("month"), rows |-> <<>>]
              /\ teams_with_ot = [cols |-> TeamsCols, rows |-> <<>>]

\* Periods: the week of Monday 2025-04-28 runs into May (04-30 is 120,
\* Labour Day 121) and May has a second week (Monday 05-05 is 125); the
\* hours differ by date, and one person's name comes in two spellings.
HoursOn(d) == IF d = 120 THEN 9 ELSE IF d = 121 THEN 8 ELSE 4

RowsPeriods ==
    {NamedRow(Amina, name, Cell(d), Cell(HoursOn(d)), KENYA_TZ) :
        name \in {"Amina A", "amina a"}, d \in {120, 121, 125}}
    \cup {RawRow(Brian, Cell(d), Cell(HoursOn(d)), KENYA_TZ) : d \in {120, 121, 125}}

InitPeriods ==
    InitFrom(RawTables(AllCols, RowsPeriods),
             {Config("Fraud Operations", n, TRUE) : n \in {0, 1}})

SpecPeriods == InitPeriods /\ [][Next]_vars

(***************************************************************************)
(* Persons of the summary                                                  *)
(***************************************************************************)
\* The emails of the enriched shift table.
Emails == {df.rows[i].email : i \in 1..Len(df.rows)}

\* The rows of the summary with email e.
SummaryRowsOf(e) == {j \in 1..Len(summary_table.rows) : summary_table.rows[j].email = e}

\* The person with email e has no shift with is_ot_day or is_bank_holiday.
NoFlaggedShift(e) ==
    \A i \in 1..Len(df.rows) :
        df.rows[i].email = e => ~df.rows[i].is_ot_day /\ ~df.rows[i].is_bank_holiday

\* C11: the summary has exactly one row for every email of the enriched
\* shift table and no row for another email; the row of a person without an
\* overtime or bank-holiday shift has its four totals at zero.
C11_OneSummaryRowPerEmail ==
    Built(summary_table) =>
        /\ \A e \in Emails : Cardinality(SummaryRowsOf(e)) = 1
        /\ \A j \in 1..Len(summary_table.rows) :
              LET t == summary_table.rows[j]
              IN /\ t.email \in Emails
                 /\ NoFlaggedShift(t.email) =>
                       /\ t.days_OT = 0 /\ t.days_BH = 0
                       /\ t.hours_OT = 0 /\ t.hours_BH = 0

(***************************************************************************)
(* Conservation of hours across the per-person views                       *)
(***************************************************************************)
PersonOf(r) == <<r.team, r.full_name, r.email>>

\* The persons of the enriched table and of the three views.
Persons ==
    {<<cfg.team_name, df.rows[i].full_name, df.rows[i].email>> : i \in 1..Len(df.rows)}
    \cup {PersonOf(summary_table.rows[i]) : i \in 1..Len(summary_table.rows)}
    \cup {PersonOf(weekly_summary.rows[i]) : i \in 1..Len(weekly_summary.rows)}
    \cup {PersonOf(monthly_summary.rows[i]) : i \in 1..Len(monthly_summary.rows)}

\* The sum of column col over the rows of person p in table t.
TotalOf(t, p, col) ==
    SumSeq(Column(SelectRows(t.rows, {i \in 1..Len(t.rows) : PersonOf(t.rows[i]) = p}), col))

ViewsBuilt == Built(summary_table) /\ Built(weekly_summary) /\ Built(monthly_summary)

\* C12: for a non-empty enriched table and each (team, full_name, email),
\* total_ot summed over the person's weekly rows, total_ot summed over the
\* person's monthly rows and hours_OT of the summary are equal, and so are
\* total_bh, total_bh and hours_BH, also when a week spans two months.
C12_HoursConserved ==
    (ViewsBuilt /\ df.rows # <<>>) =>
        \A p \in Persons :
            /\ TotalOf(weekly_summary, p, "total_ot") = TotalOf(summary_table, p, "hours_OT")
            /\ TotalOf(monthly_summary, p, "total_ot") = TotalOf(summary_table, p, "hours_OT")
            /\ TotalOf(weekly_summary, p, "total_bh") = TotalOf(summary_table, p, "hours_BH")
            /\ TotalOf(monthly_summary, p, "total_bh") = TotalOf(summary_table, p, "hours_BH")

\* A person with overtime on 04-30 and on Labour Day: one weekly row (week
\* of 04-28) against two monthly rows (April, May), and a second week in May.
C12_Witness ==
    /\ ViewsBuilt
    /\ \E w \in 1..Len(weekly_summary.rows) :
       \E a, m \in 1..Len(monthly_summary.rows) :
       \E v \in 1..Len(weekly_summary.rows) :
          /\ PersonOf(monthly_summary.rows[a]) = PersonOf(weekly_summary.rows[w])
          /\ PersonOf(monthly_summary.rows[m]) = PersonOf(weekly_summary.rows[w])
          /\ PersonOf(weekly_summary.rows[v]) = PersonOf(weekly_summary.rows[w])
          /\ weekly_summary.rows[w].week_start = 118
          /\ weekly_summary.rows[v].week_start = 125
          /\ monthly_summary.rows[a].month = 91
          /\ monthly_summary.rows[m].month = 121
          /\ monthly_summary.rows[a].total_ot = 9
          /\ monthly_summary.rows[m].total_ot = 12
          /\ monthly_summary.rows[m].total_bh = 8
          /\ weekly_summary.rows[w].total_ot = 17
          /\ weekly_summary.rows[v].total_ot = 4

====
